---- MODULE Spec2Model ----
(***************************************************************************)
(* College attendance backend (main.py): student CRUD, attendance marking, *)
(* the three scheduled jobs and the admin password recovery endpoints,     *)
(* modelled as a state machine over the database tables, the image store   *)
(* and the server clock.                                                   *)
(*                                                                         *)
(* Strings whose content the code inspects (roll, userId, issue_valid) are *)
(* sequences of one-character strings, so that upper(), lower(), split()   *)
(* and int() are computed and not assumed.  Dates are proleptic Gregorian  *)
(* ordinals (date.toordinal()).  The columns name, branch, dob and pin of  *)
(* a student are never read by the handlers modelled here and are left     *)
(* out of the student rows.                                                *)
(***************************************************************************)
EXTENDS Integers, Sequences, FiniteSets, Bags, TLC

VARIABLES
  today,       \* the server's calendar date (date.today()), an ordinal
  students,    \* rows of the students table
  attendance,  \* rows of the attendance table, a bag: (roll, date) is no key
  cloud,       \* public_ids held by the image store
  mark,        \* per client: the mark_attendance request in flight
  sweep,       \* the mark_absent_students job in flight
  admins,      \* rows of the admins table
  verified,    \* history: user ids for which verify_answers has returned ok
  response     \* the most recent HTTP response

vars == <<today, students, attendance, cloud, mark, sweep, admins, verified, response>>

\* ------------------------------------------------------------------ bounds

\* Public ids the image store can hand out.
MaxPhotos == 2
\* Clock readings within one day: 0 is exactly midnight, 1..MaxTimeOfDay later.
MaxTimeOfDay == 1

\* ------------------------------------------------------------------ strings

UpperChar(c) ==
  CASE c = "a" -> "A" [] c = "b" -> "B" [] c = "d" -> "D" [] OTHER -> c

LowerChar(c) ==
  CASE c = "A" -> "a" [] c = "B" -> "b" [] c = "D" -> "d" [] OTHER -> c

\* str.upper()
UpperIdentity(s) == s
Upper(s) == [i \in DOMAIN s |-> UpperChar(s[i])]

\* str.lower()
Lower(s) == [i \in DOMAIN s |-> LowerChar(s[i])]

Digits == {"0", "1", "2", "3", "4", "5", "6", "7", "8", "9"}

DigitVal(c) ==
  CASE c = "0" -> 0 [] c = "1" -> 1 [] c = "2" -> 2 [] c = "3" -> 3
    [] c = "4" -> 4 [] c = "5" -> 5 [] c = "6" -> 6 [] c = "7" -> 7
    [] c = "8" -> 8 [] c = "9" -> 9

\* str.split("-"): the pieces between the dashes, at least one piece.
RECURSIVE Split(_)
Split(s) ==
  IF s = <<>> THEN << <<>> >>
  ELSE LET rest == Split(Tail(s))
       IN  IF Head(s) = "-"
           THEN << <<>> >> \o rest
           ELSE << <<Head(s)>> \o Head(rest) >> \o Tail(rest)

\* int(s) for a string over digits and letters: the value, or -1 for ValueError.
RECURSIVE DecimalValue(_)
DecimalValue(s) ==
  IF s = <<>> THEN 0
  ELSE 10 * DecimalValue(SubSeq(s, 1, Len(s) - 1)) + DigitVal(s[Len(s)])

ParseInt(s) ==
  IF s # <<>> /\ \A i \in DOMAIN s : s[i] \in Digits THEN DecimalValue(s) ELSE -1

\* ------------------------------------------------------------------ calendar

IsLeap(y) == (y % 4 = 0) /\ ((y % 100 # 0) \/ (y % 400 = 0))

\* Days before January 1 of year y (date(y, 1, 1).toordinal() - 1).
DaysBeforeYear(y) ==
  (y - 1) * 365 + ((y - 1) \div 4) - ((y - 1) \div 100) + ((y - 1) \div 400)

\* date(y, 12, 31).toordinal()
Dec31(y) == DaysBeforeYear(y) + (IF IsLeap(y) THEN 366 ELSE 365)

\* The calendar dates the clock shows and clients send: 2024-12-31,
\* 2025-01-01 and 2026-01-01 (365 days after the second, 366 after the first).
Days == {Dec31(2024), Dec31(2024) + 1, Dec31(2025) + 1}

TimesOfDay == 0 .. MaxTimeOfDay

\* ------------------------------------------------------------------ inputs

RollInputs == { <<"a", "1">>, <<"A", "1">>, <<"B", "2">> }

IssueValids ==
  { <<"2", "1", "-", "2", "4">>,
    <<"2", "1", "-", "2", "0", "2", "5">>,
    <<"2", "1", "-", "x", "x">>,
    <<>> }

Clients == {"c1", "c2"}

UserIdInputs == { <<"a">>, <<"A">>, <<"d">>, <<"b">> }
Answers == {"blue", "Blue", "rex"}
Passwords == {"pw0", "pw1", "pw2"}

PhotoIds == 1 .. MaxPhotos

\* ------------------------------------------------------------------ collaborators

\* auth.get_password_hash / auth.verify_password
get_password_hash(p) == <<"hash", p>>
verify_password(p, h) == get_password_hash(p) = h

\* The attendance table carries no uniqueness constraint on (roll, date).
UniqueRollDate == FALSE

Resp(op, status) == [op |-> op, status |-> status]

\* ------------------------------------------------------------------ tables

StudentRow(roll, issue_valid, public_id) ==
  [roll |-> roll, issue_valid |-> issue_valid, photo_public_id |-> public_id]

AttendanceRow(roll, date, status) ==
  [roll |-> roll, date |-> date, status |-> status]

\* db.query(Student).filter(Student.roll == roll): the matching rows
StudentsWithRoll(studs, roll) == {s \in studs : s.roll = roll}

\* db.query(Attendance).filter(roll == .., date == ..).first() finds a row
RecordExistsPresentOnly(att, roll, date) ==
  \E r \in BagToSet(att) : r.roll = roll /\ r.date = date /\ r.status = "Present"
RecordExists(att, roll, date) ==
  \E r \in BagToSet(att) : r.roll = roll /\ r.date = date

\* The rows of a bag that satisfy keep.
BagFilter(b, keep(_)) == [r \in {x \in BagToSet(b) : keep(x)} |-> b[r]]

\* db.query(Attendance).filter(Attendance.roll == roll).delete()
DeleteAttendanceKeepAll(att, roll) == att
DeleteAttendanceOf(att, roll) == BagFilter(att, LAMBDA r : r.roll # roll)

\* cloudinary.uploader.upload: the public_id of the new asset
FreshPhotoId(store) == CHOOSE p \in PhotoIds \ store : \A q \in PhotoIds \ store : p <= q

IdleMark == [pc |-> "idle", roll |-> <<>>, today |-> 0]
IdleSweep == [pc |-> "idle", today |-> 0, todo |-> {}, pending |-> EmptyBag]

InitialAdmins ==
  { [user_id |-> <<"a">>, password_hash |-> get_password_hash("pw0"),
     answer1 |-> "blue", answer2 |-> "rex"],
    [user_id |-> <<"d">>, password_hash |-> get_password_hash("pw0"),
     answer1 |-> "rex", answer2 |-> "blue"] }

Init ==
  /\ today = Dec31(2024)
  /\ students = {}
  /\ attendance = EmptyBag
  /\ cloud = {}
  /\ mark = [c \in Clients |-> IdleMark]
  /\ sweep = IdleSweep
  /\ admins = InitialAdmins
  /\ verified = {}
  /\ response = Resp("none", "none")

\* ------------------------------------------------------------------ clock

\* Time passes to a later calendar date.
Tick ==
  /\ \E d \in Days : d > today /\ today' = d
  /\ UNCHANGED <<students, attendance, cloud, mark, sweep, admins, verified, response>>

\* ------------------------------------------------------------------ auth

login(userId, password) ==
  LET found == {a \in admins : a.user_id = Lower(userId)}
  IN  /\ response' =
           IF found = {} \/ \A a \in found : ~verify_password(password, a.password_hash)
           THEN Resp("login", "400")
           ELSE Resp("login", "ok")
      /\ UNCHANGED <<today, students, attendance, cloud, mark, sweep, admins, verified>>

verify_answers(userId, answer1, answer2) ==
  LET found == {a \in admins : a.user_id = Lower(userId)}
  IN  /\ IF found = {}
         THEN /\ response' = Resp("verify", "404")
              /\ UNCHANGED verified
         ELSE \E a \in found :
                IF a.answer1 # answer1 \/ a.answer2 # answer2
                THEN /\ response' = Resp("verify", "400")
                     /\ UNCHANGED verified
                ELSE /\ response' = Resp("verify", "ok")
                     /\ verified' = verified \cup {a.user_id}
      /\ UNCHANGED <<today, students, attendance, cloud, mark, sweep, admins>>

reset_password(userId, newPassword) ==
  LET found == {a \in admins : a.user_id = Lower(userId)}
  IN  /\ IF found = {}
         THEN /\ response' = Resp("reset", "404")
              /\ UNCHANGED admins
         ELSE \E a \in found :
                /\ admins' = (admins \ {a}) \cup
                     {[a EXCEPT !.password_hash = get_password_hash(newPassword)]}
                /\ response' = Resp("reset", "ok")
      /\ UNCHANGED <<today, students, attendance, cloud, mark, sweep, verified>>

Login == \E u \in UserIdInputs, p \in Passwords : login(u, p)
VerifyAnswers == \E u \in UserIdInputs, a1 \in Answers, a2 \in Answers : verify_answers(u, a1, a2)
ResetPassword == \E u \in UserIdInputs, p \in Passwords : reset_password(u, p)

\* ------------------------------------------------------------------ student CRUD
\* Each handler changes the tables and the image store; what it returns is
\* an operator of its own, recorded in response.

\* POST /students/ : uploadOk is whether the image store accepts the upload.
create_returns(roll, uploadOk) ==
  IF StudentsWithRoll(students, Upper(roll)) # {} THEN "400 Roll number already exists"
  ELSE IF ~uploadOk THEN "500"
  ELSE "ok"

create_student(roll, issue_valid, uploadOk) ==
  /\ IF create_returns(roll, uploadOk) = "ok"
     THEN /\ PhotoIds \ cloud # {}
          /\ cloud' = cloud \cup {FreshPhotoId(cloud)}
          /\ students' = students \cup
               {StudentRow(Upper(roll), issue_valid, FreshPhotoId(cloud))}
     ELSE UNCHANGED <<students, cloud>>
  /\ UNCHANGED <<today, attendance, mark, sweep, admins, verified>>

\* len(pin) != 4 or not pin.isdigit()
PinRejected(pin) == pin # <<>> /\ (Len(pin) # 4 \/ \E i \in DOMAIN pin : pin[i] \notin Digits)

\* PUT /students/{roll} : issue_valid is {} (not sent) or {value}; photo is
\* "none" (not sent), "ok", "destroyFailed" (the old asset stays),
\* "uploadFailed" (the old asset is destroyed, the upload raises) or
\* "bothFailed".
update_returns(s, photo, pin) ==
  IF s = {} THEN "404"
  ELSE IF photo \in {"uploadFailed", "bothFailed"} THEN "500"
  ELSE IF PinRejected(pin) THEN "400 PIN must be exactly 4 digits"
  ELSE "ok"

update_student(roll, issue_valid, photo, pin) ==
  LET found == StudentsWithRoll(students, Upper(roll))
  IN  /\ IF found = {}
         THEN UNCHANGED <<students, cloud>>
         ELSE \E s \in found :
                LET afterDestroy == IF photo \in {"ok", "uploadFailed"}
                                    THEN cloud \ {s.photo_public_id} ELSE cloud
                    uploaded == photo \in {"ok", "destroyFailed"}
                    newId == IF uploaded THEN FreshPhotoId(afterDestroy)
                             ELSE s.photo_public_id
                    newValid == IF issue_valid # {} /\ issue_valid # {<<>>}
                                THEN CHOOSE v \in issue_valid : TRUE
                                ELSE s.issue_valid
                IN  /\ uploaded => PhotoIds \ afterDestroy # {}
                    /\ cloud' = IF uploaded THEN afterDestroy \cup {newId} ELSE afterDestroy
                    /\ IF update_returns({s}, photo, pin) = "ok"
                       THEN students' = (students \ {s}) \cup
                                          {StudentRow(s.roll, newValid, newId)}
                       ELSE UNCHANGED students
      /\ UNCHANGED <<today, attendance, mark, sweep, admins, verified>>

\* DELETE /students/{roll}
delete_returns(roll) ==
  IF StudentsWithRoll(students, Upper(roll)) = {} THEN "404" ELSE "ok"

delete_student(roll, destroyOk) ==
  LET found == StudentsWithRoll(students, Upper(roll))
  IN  /\ IF found = {}
         THEN UNCHANGED <<students, attendance, cloud>>
         ELSE \E s \in found :
                /\ cloud' = IF destroyOk THEN cloud \ {s.photo_public_id} ELSE cloud
                /\ attendance' = DeleteAttendanceOf(attendance, Upper(roll))
                /\ students' = students \ {s}
      /\ UNCHANGED <<today, mark, sweep, admins, verified>>

PinInputs == { <<>>, <<"1", "2", "3", "4">>, <<"1", "2">> }

\* issue_valid is not read by a request that fails: it is enumerated only for
\* the requests that store a row.
CreateStudent ==
  \E roll \in RollInputs, uploadOk \in BOOLEAN :
  \E iv \in IF create_returns(roll, uploadOk) = "ok" THEN IssueValids ELSE {<<>>} :
    /\ create_student(roll, iv, uploadOk)
    /\ response' = Resp("create", create_returns(roll, uploadOk))

UpdateStudent ==
  \E roll \in RollInputs, iv \in {{}} \cup {{v} : v \in IssueValids},
     photo \in {"none", "ok", "destroyFailed", "uploadFailed", "bothFailed"},
     pin \in PinInputs :
    /\ update_student(roll, iv, photo, pin)
    /\ response' = Resp("update",
         update_returns(StudentsWithRoll(students, Upper(roll)), photo, pin))

DeleteStudent ==
  \E roll \in RollInputs, destroyOk \in BOOLEAN :
    /\ delete_student(roll, destroyOk)
    /\ response' = Resp("delete", delete_returns(roll))

\* Creation and deletion with one validity window and a working image store,
\* for the specification in which requests interleave.
EnrolStudent ==
  \E roll \in RollInputs :
    /\ create_student(roll, <<"2", "1", "-", "2", "4">>, TRUE)
    /\ response' = Resp("create", create_returns(roll, TRUE))

RemoveStudent ==
  \E roll \in RollInputs :
    /\ delete_student(roll, TRUE)
    /\ response' = Resp("delete", delete_returns(roll))

\* ------------------------------------------------------------------ attendance

\* Student.roll == attendance_data.roll: the roll is compared as sent.
MarkLookup(studs, roll) == StudentsWithRoll(studs, roll)

\* attendance_data.date != today
DateAcceptedUpToToday(date, now) == date <= now
DateAccepted(date, now) == date = now

\* POST /attendance/mark, lines 273-289: what the checks return, "insert"
\* when they all pass.
mark_check_returns(roll, date) ==
  IF MarkLookup(students, roll) = {} THEN "404 Student not found"
  ELSE IF ~DateAccepted(date, today) THEN "400 Invalid date"
  ELSE IF RecordExists(attendance, roll, today) THEN "Attendance already marked"
  ELSE "insert"

\* Attendance(roll=..., date=today, status="Present"), lines 292-296
PresentRow(roll, now) == AttendanceRow(roll, now, "Present")

\* POST /attendance/mark, the whole handler.
mark_attendance(roll, date) ==
  /\ response' = IF mark_check_returns(roll, date) = "insert"
                 THEN Resp("mark", "Attendance marked as Present")
                 ELSE Resp("mark", mark_check_returns(roll, date))
  /\ mark_check_returns(roll, date) = "insert"
       => ~(UniqueRollDate /\ RecordExists(attendance, roll, today))
  /\ attendance' = IF mark_check_returns(roll, date) = "insert"
                   THEN attendance (+) SetToBag({PresentRow(roll, today)})
                   ELSE attendance
  /\ UNCHANGED <<today, students, cloud, mark, sweep, admins, verified>>

MarkAttendance == \E roll \in RollInputs, date \in Days : mark_attendance(roll, date)

\* The handler up to its existence check, for a client whose request
\* interleaves with others.
MarkCheck(c, roll, date) ==
  /\ mark[c].pc = "idle"
  /\ mark' = IF mark_check_returns(roll, date) = "insert"
             THEN [mark EXCEPT ![c] = [pc |-> "insert", roll |-> roll, today |-> today]]
             ELSE mark
  /\ response' = IF mark_check_returns(roll, date) = "insert" THEN response
                 ELSE Resp("mark", mark_check_returns(roll, date))
  /\ UNCHANGED <<today, students, attendance, cloud, sweep, admins, verified>>

\* The insert and its commit, lines 297-301.  A row whose student is gone by
\* now is either refused by the database (a foreign key) or stored: the
\* schema decides, and both are allowed.
MarkCommit(c, refused) ==
  /\ mark[c].pc = "insert"
  /\ refused =>
       \/ StudentsWithRoll(students, mark[c].roll) = {}
       \/ UniqueRollDate /\ RecordExists(attendance, mark[c].roll, mark[c].today)
  /\ ~refused => ~(UniqueRollDate /\ RecordExists(attendance, mark[c].roll, mark[c].today))
  /\ mark' = [mark EXCEPT ![c] = IdleMark]
  /\ attendance' =
       IF refused THEN attendance
       ELSE attendance (+) SetToBag({PresentRow(mark[c].roll, mark[c].today)})
  /\ response' = IF refused THEN Resp("mark", "500")
                 ELSE Resp("mark", "Attendance marked as Present")
  /\ UNCHANGED <<today, students, cloud, sweep, admins, verified>>

MarkAttendanceCheck ==
  \E c \in Clients, roll \in RollInputs, date \in Days : MarkCheck(c, roll, date)

MarkAttendanceCommit == \E c \in Clients, refused \in BOOLEAN : MarkCommit(c, refused)

\* ------------------------------------------------------------------ absentee sweep

\* The status the sweep writes.
SweepStatus == "Absent"

\* One turn of the loop, lines 309-322: the pending rows after the turn for
\* roll.  The query sees the committed rows and the session's pending ones.
SweepVisitAlways(att, pending, roll, now) ==
  pending (+) SetToBag({AttendanceRow(roll, now, SweepStatus)})
SweepVisit(att, pending, roll, now) ==
  IF RecordExists(att (+) pending, roll, now)
  THEN pending
  ELSE pending (+) SetToBag({AttendanceRow(roll, now, SweepStatus)})

\* The loop over the students in the order scanned: the rows it adds.
RECURSIVE SweepLoop(_, _, _, _)
SweepLoop(order, att, pending, now) ==
  IF order = <<>> THEN pending
  ELSE SweepLoop(Tail(order), att, SweepVisit(att, pending, Head(order).roll, now), now)

\* The orders in which db.query(Student).all() may return the rows.
ScanOrders(studs) ==
  {f \in [1 .. Cardinality(studs) -> studs] : \A i, j \in DOMAIN f : f[i] = f[j] => i = j}

\* mark_absent_students, the whole job.
mark_absent_students(order) ==
  /\ response' = Resp("mark_absent_students", "done")
  /\ attendance' = attendance (+) SweepLoop(order, attendance, EmptyBag, today)
  /\ UNCHANGED <<today, students, cloud, mark, sweep, admins, verified>>

MarkAbsentStudents == \E order \in ScanOrders(students) : mark_absent_students(order)

\* The job in steps, for the specification in which it interleaves with
\* requests.  Lines 305-308: the session, today, the student list.
SweepStart ==
  /\ sweep.pc = "idle"
  /\ sweep' = [pc |-> "scan", today |-> today,
               todo |-> {s.roll : s \in students}, pending |-> EmptyBag]
  /\ UNCHANGED <<today, students, attendance, cloud, mark, admins, verified, response>>

SweepCheck ==
  /\ sweep.pc = "scan"
  /\ \E r \in sweep.todo :
       sweep' = [sweep EXCEPT
         !.todo = @ \ {r},
         !.pending = SweepVisit(attendance, @, r, sweep.today)]
  /\ UNCHANGED <<today, students, attendance, cloud, mark, admins, verified, response>>

\* db.commit(), line 323.  Pending rows of a student deleted meanwhile are
\* either refused by the database, which fails the whole commit, or stored.
SweepCommit ==
  /\ sweep.pc = "scan"
  /\ sweep.todo = {}
  /\ sweep' = IdleSweep
  /\ \E refused \in BOOLEAN :
       /\ refused => \E r \in BagToSet(sweep.pending) : StudentsWithRoll(students, r.roll) = {}
       /\ attendance' = IF refused THEN attendance ELSE attendance (+) sweep.pending
       /\ response' = IF refused THEN response ELSE Resp("mark_absent_students", "done")
  /\ UNCHANGED <<today, students, cloud, mark, admins, verified>>

\* ------------------------------------------------------------------ expired-student purge

\* int(student.issue_valid.split("-")[1]) with the two-digit rule; -1 when
\* the index or the conversion raises.
EndYear(issue_valid) ==
  LET parts == Split(issue_valid)
  IN  IF Len(parts) < 2 THEN -1
      ELSE LET n == ParseInt(parts[2])
           IN  IF n < 0 THEN -1 ELSE IF n < 100 THEN n + 2000 ELSE n

\* today > datetime(end_year, 12, 31), today read at time tod of date day.
AfterMidnightOf(day, tod, year) == day > Dec31(year) \/ (day = Dec31(year) /\ tod > 0)

\* Lines 333-339 for one student: the student is deleted.  datetime() takes
\* the years 1..9999 and raises for the others.
IsExpiredWhenUnparsed(day, tod, issue_valid) ==
  issue_valid # <<>> /\ AfterMidnightOf(day, tod, EndYear(issue_valid))
IsExpired(day, tod, issue_valid) ==
  /\ issue_valid # <<>>
  /\ EndYear(issue_valid) >= 1
  /\ EndYear(issue_valid) <= 9999
  /\ AfterMidnightOf(day, tod, EndYear(issue_valid))

\* The loop of lines 332-344 over the students in the order scanned.
RECURSIVE PurgeLoop(_, _, _, _, _)
PurgeLoop(order, studs, att, day, tod) ==
  IF order = <<>> THEN [students |-> studs, attendance |-> att]
  ELSE LET s == Head(order)
       IN  IF IsExpired(day, tod, s.issue_valid)
           THEN PurgeLoop(Tail(order), studs \ {s}, DeleteAttendanceOf(att, s.roll), day, tod)
           ELSE PurgeLoop(Tail(order), studs, att, day, tod)

delete_expired_students(tod, order) ==
  LET out == PurgeLoop(order, students, attendance, today, tod)
  IN  /\ response' = Resp("delete_expired_students", "done")
      /\ students' = out.students
      /\ attendance' = out.attendance
      /\ UNCHANGED <<today, cloud, mark, sweep, admins, verified>>

DeleteExpiredStudents ==
  \E tod \in TimesOfDay, order \in ScanOrders(students) : delete_expired_students(tod, order)

\* ------------------------------------------------------------------ stale-attendance purge

RetentionDays == 365

\* (today - timedelta(days=365)).date()
CutoffDateInclusive(now) == now - RetentionDays + 1
CutoffDate(now) == now - RetentionDays

cleanup_old_attendance ==
  /\ response' = Resp("cleanup_old_attendance", "done")
  /\ attendance' = BagFilter(attendance, LAMBDA r : ~(r.date < CutoffDate(today)))
  /\ UNCHANGED <<today, students, cloud, mark, sweep, admins, verified>>

\* ------------------------------------------------------------------ specifications

\* One attendance day on which the mark requests of two clients, the sweep
\* and the student endpoints interleave at their queries and commits.
Next ==
  \/ EnrolStudent
  \/ RemoveStudent
  \/ MarkAttendanceCheck
  \/ MarkAttendanceCommit
  \/ SweepStart
  \/ SweepCheck
  \/ SweepCommit

Spec == Init /\ [][Next]_vars

\* Every request and job over the students and the attendance table, each
\* run to completion before the next one starts.
SeqNext ==
  \/ Tick
  \/ CreateStudent
  \/ DeleteStudent
  \/ MarkAttendance
  \/ MarkAbsentStudents
  \/ DeleteExpiredStudents
  \/ cleanup_old_attendance

SeqSpec == Init /\ [][SeqNext]_vars

\* Attendance taking, run to completion: enrolment, marking, the sweep and
\* the retention purge over the days.
DayNext ==
  \/ Tick
  \/ EnrolStudent
  \/ RemoveStudent
  \/ MarkAttendance
  \/ MarkAbsentStudents
  \/ cleanup_old_attendance

DaySpec == Init /\ [][DayNext]_vars

\* The validity window, run to completion: students of every issue_valid,
\* the sweep that gives them rows, and the expired-student purge.
ExpiryNext ==
  \/ Tick
  \/ CreateStudent
  \/ DeleteStudent
  \/ MarkAbsentStudents
  \/ DeleteExpiredStudents

ExpirySpec == Init /\ [][ExpiryNext]_vars

\* The student endpoints alone, update included.
CrudNext ==
  \/ CreateStudent
  \/ UpdateStudent
  \/ DeleteStudent

CrudSpec == Init /\ [][CrudNext]_vars

\* The admin endpoints.
AuthNext ==
  \/ Login
  \/ VerifyAnswers
  \/ ResetPassword

AuthSpec == Init /\ [][AuthNext]_vars

\* ------------------------------------------------------------------ properties

\* Vocabulary of the properties, independent of the handlers' own queries.
\* A property about one handler is stated of the steps whose response'.op
\* names that handler, which every step of the handler satisfies.
HasRow(att, roll, date) == \E r \in BagToSet(att) : r.roll = roll /\ r.date = date
HasStudent(studs, roll) == \E s \in studs : s.roll = roll
RowsOfRoll(att, roll) == BagFilter(att, LAMBDA r : r.roll = roll)
RowsOfKey(att, roll, date) == BagFilter(att, LAMBDA r : r.roll = roll /\ r.date = date)
RowsFor(att, roll, date) == BagCardinality(RowsOfKey(att, roll, date))
Unparsable(issue_valid) == issue_valid = <<>> \/ EndYear(issue_valid) = -1
SameRollIgnoringCase(a, b) == Lower(a) = Lower(b)
RollsOf(studs) == {s.roll : s \in studs}

\* C1: in every reachable state the attendance table holds at most one row
\* per (roll, date), also when mark requests and the sweep interleave.
C1_OneRecordPerRollDate ==
  \A r \in BagToSet(attendance) : RowsFor(attendance, r.roll, r.date) <= 1

\* C2: a mark-present call for an existing student and today's date, made
\* when a row for (roll, today) exists with either status, answers "already
\* marked" and changes no row; after any mark-present call for an existing
\* student and today there is exactly one row for (roll, today); and no
\* mark-present call changes the rows of a key that holds an Absent row.
C2_AlreadyMarkedIsNoOp ==
  [][ response'.op = "mark" =>
      /\ \A roll \in RollInputs :
           (/\ mark_attendance(roll, today)
            /\ HasStudent(students, roll)
            /\ HasRow(attendance, roll, today))
           => /\ response' = Resp("mark", "Attendance already marked")
              /\ attendance' = attendance
      /\ \A roll \in RollInputs :
           (mark_attendance(roll, today) /\ HasStudent(students, roll))
           => RowsFor(attendance', roll, today) = 1
      /\ \A roll \in RollInputs, date \in Days :
           mark_attendance(roll, date)
           => \A r \in BagToSet(attendance) :
                r.status = "Absent"
                => RowsOfKey(attendance', r.roll, r.date) = RowsOfKey(attendance, r.roll, r.date)
    ]_vars

\* A lone student marked Absent by the sweep has asked to be marked present
\* the same day: the answer is "already marked" and the Absent row is the
\* only one.
C2_Witness ==
  /\ response = Resp("mark", "Attendance already marked")
  /\ \E s \in students :
       /\ students = {s}
       /\ RowsFor(attendance, s.roll, today) = 1
       /\ \E r \in BagToSet(attendance) :
            r.roll = s.roll /\ r.date = today /\ r.status = "Absent"

\* C3: when the sweep has run to completion for date D, every student has
\* exactly one row for D, Present if the student had a Present row and Absent
\* otherwise, the rows of the other dates are as before, and a second run
\* for D adds no row.
C3_SweepCompletesTheDay ==
  [][ response'.op = "mark_absent_students" =>
      \A order \in ScanOrders(students) :
        mark_absent_students(order)
        => /\ \A s \in students :
                /\ RowsFor(attendance', s.roll, today) = 1
                /\ \A r \in BagToSet(attendance') :
                     (r.roll = s.roll /\ r.date = today)
                     => r.status =
                          IF \E q \in BagToSet(attendance) :
                               q.roll = s.roll /\ q.date = today /\ q.status = "Present"
                          THEN "Present" ELSE "Absent"
           /\ BagFilter(attendance', LAMBDA r : r.date # today)
                = BagFilter(attendance, LAMBDA r : r.date # today)
           /\ \A again \in ScanOrders(students) :
                SweepLoop(again, attendance', EmptyBag, today) = EmptyBag
    ]_vars

\* The sweep has just finished on a day on which one student was marked
\* present and another was not.
C3_Witness ==
  /\ response = Resp("mark_absent_students", "done")
  /\ \E s, t \in students :
       /\ s # t
       /\ RowsOfKey(attendance, s.roll, today) = SetToBag({AttendanceRow(s.roll, today, "Present")})
       /\ RowsOfKey(attendance, t.roll, today) = SetToBag({AttendanceRow(t.roll, today, "Absent")})

\* C4: the expired-student purge deletes a student whose end year resolves
\* to Y, with the student's rows, exactly when it runs on a date after
\* December 31 of Y; a run on or before that date leaves both in place.
C4_PurgeOnlyAfterDecember31 ==
  [][ response'.op = "delete_expired_students" =>
      \A tod \in TimesOfDay, order \in ScanOrders(students) :
        delete_expired_students(tod, order)
        => \A s \in students :
             ~Unparsable(s.issue_valid)
             => IF today > Dec31(EndYear(s.issue_valid))
                THEN s \notin students' /\ ~HasStudent(students', s.roll)
                     /\ RowsOfRoll(attendance', s.roll) = EmptyBag
                ELSE s \in students'
                     /\ RowsOfRoll(attendance', s.roll) = RowsOfRoll(attendance, s.roll)
    ]_vars

\* C5: the stale-attendance purge run on date T removes every row dated 366
\* days or more before T, keeps every other row (one dated exactly 365 days
\* before T included) as it is, adds none and changes no student.
C5_PurgeKeeps365Days ==
  [][ cleanup_old_attendance
      => /\ students' = students
         /\ BagToSet(attendance') \subseteq BagToSet(attendance)
         /\ \A r \in BagToSet(attendance) :
              CopiesIn(r, attendance') =
                IF today - r.date >= 366 THEN 0 ELSE CopiesIn(r, attendance)
    ]_vars

\* The purge has just run on 2026-01-01 and a row dated 2025-01-01, 365 days
\* before, is in the table.
C5_Witness ==
  /\ response = Resp("cleanup_old_attendance", "done")
  /\ \E r \in BagToSet(attendance) : today - r.date = 365
  /\ \A r \in BagToSet(attendance) : today - r.date <= 365

\* C6: mark-present for an existing student and a date other than today
\* answers "Invalid date" and stores nothing; for a roll that matches no
\* student it answers "Student not found" and stores nothing; and the only
\* row a mark-present call ever stores is (roll, today, Present), for a call
\* whose date is today.
C6_MarkRejectsOtherDates ==
  [][ response'.op = "mark" =>
      \A roll \in RollInputs, date \in Days :
        mark_attendance(roll, date)
        => /\ (HasStudent(students, roll) /\ date # today)
                => /\ response' = Resp("mark", "400 Invalid date")
                   /\ attendance' = attendance
           /\ ~HasStudent(students, roll)
                => /\ response' = Resp("mark", "404 Student not found")
                   /\ attendance' = attendance
           /\ attendance' # attendance
                => /\ date = today
                   /\ attendance' =
                        attendance (+) SetToBag({AttendanceRow(roll, today, "Present")})
    ]_vars

\* A mark-present call for an existing student has been refused for its date.
C6_Witness ==
  /\ response = Resp("mark", "400 Invalid date")
  /\ students # {}

\* C7: after every operation each attendance row's roll is the roll of
\* exactly one student in the store, and an operation that removes students
\* leaves the rows of the remaining students as they were.
C7_CascadeKeepsOwnership ==
  [][ /\ \A r \in BagToSet(attendance') :
           Cardinality({s \in students' : s.roll = r.roll}) = 1
      /\ (students' # students /\ students' \subseteq students)
           => \A s \in students' :
                RowsOfRoll(attendance', s.roll) = RowsOfRoll(attendance, s.roll)
    ]_vars

\* A student has just been deleted while another, with attendance rows,
\* stays in the store.
C7_Witness ==
  /\ response = Resp("delete", "ok")
  /\ \E s \in students :
       /\ students = {s}
       /\ RowsOfRoll(attendance, s.roll) # EmptyBag

\* C8: an admin's password hash differs from the initial one only if
\* verify_answers has succeeded for that user id before.
C8_ResetRequiresVerification ==
  \A a \in admins :
    a.password_hash # get_password_hash("pw0") => a.user_id \in verified

\* C9: the expired-student purge, in whatever order it scans, keeps every
\* student whose issue_valid is missing or yields no end year, with all the
\* student's rows, and deletes every student whose December 31 has passed.
C9_UnparsableIsSkipped ==
  [][ response'.op = "delete_expired_students" =>
      \A tod \in TimesOfDay, order \in ScanOrders(students) :
        delete_expired_students(tod, order)
        => \A s \in students :
             IF Unparsable(s.issue_valid)
             THEN s \in students'
                  /\ RowsOfRoll(attendance', s.roll) = RowsOfRoll(attendance, s.roll)
             ELSE today > Dec31(EndYear(s.issue_valid)) => s \notin students'
    ]_vars

\* The purge has just run: a student with an unparsable issue_valid is still
\* in the store with attendance rows, and the image of another student, who
\* is gone, is still in the image store.
C9_Witness ==
  /\ response = Resp("delete_expired_students", "done")
  /\ today > Dec31(2024)
  /\ \E s \in students :
       /\ students = {s}
       /\ s.issue_valid # <<>>
       /\ EndYear(s.issue_valid) = -1
       /\ RowsOfRoll(attendance, s.roll) # EmptyBag
       /\ cloud # {s.photo_public_id}

\* C10: creating a student whose roll equals, ignoring case, the roll of a
\* student in the store answers "Roll number already exists" and changes
\* neither the students table nor the image store; no two students share a
\* roll; and no operation replaces a roll by another.
C10_DuplicateRollIsRejected ==
  [][ /\ \A roll \in RollInputs, uploadOk \in BOOLEAN :
           (/\ response' = Resp("create", create_returns(roll, uploadOk))
            /\ create_student(roll, <<>>, uploadOk)
            /\ \E s \in students : SameRollIgnoringCase(s.roll, roll))
           => /\ response' = Resp("create", "400 Roll number already exists")
              /\ students' = students
              /\ cloud' = cloud
      /\ \A s, t \in students' : SameRollIgnoringCase(s.roll, t.roll) => s = t
      /\ RollsOf(students) \ RollsOf(students') = {}
           \/ RollsOf(students') \ RollsOf(students) = {}
    ]_vars

\* A create request has just been refused for its roll.
C10_Witness ==
  /\ response = Resp("create", "400 Roll number already exists")
  /\ students # {}

====
